---- MODULE Spec2Model ----
(***************************************************************************)
(* A model of the Ethereum Node Record (ENR) of src/src/lib.rs and of the  *)
(* update guard of src/src/update.rs.                                      *)
(*                                                                         *)
(* Bytes are sequences of integers 0..255.  Content keys are byte strings  *)
(* (ASCII), content values are raw RLP, the sequence number is a u64 kept  *)
(* as its 8 big-endian bytes, so RLP sizes and the u64 overflow are those  *)
(* of the program.                                                         *)
(***************************************************************************)
EXTENDS Integers, Sequences, FiniteSets, TLC

(***************************************************************************)
(* Bytes, options, maps                                                    *)
(***************************************************************************)

\* Option::None for an Option<Bytes>: no byte string contains -1.
None == << -1 >>

Zeros(n) == [i \in 1..n |-> 0]

Fill(n, b) == [i \in 1..n |-> b]

\* BTreeMap::insert on the content map.
MapInsert(c, k, v) == [x \in (DOMAIN c) \cup {k} |-> IF x = k THEN v ELSE c[x]]

\* BTreeMap::remove on the content map.
MapRemove(c, k) == [x \in (DOMAIN c) \ {k} |-> c[x]]

\* BTreeMap::get, and the Option returned by insert and remove.
MapGet(c, k) == IF k \in DOMAIN c THEN c[k] ELSE None

\* Restores the entry of k to a previous Option<Bytes> value.
MapRestore(c, k, prev) == IF prev # None THEN MapInsert(c, k, prev) ELSE MapRemove(c, k)

\* Ord for Vec<u8>: lexicographic order of byte strings (BTreeMap key order).
LexLess(a, b) ==
    \/ /\ Len(a) < Len(b)
       /\ \A i \in 1..Len(a) : a[i] = b[i]
    \/ \E i \in 1..(IF Len(a) < Len(b) THEN Len(a) ELSE Len(b)) :
          /\ a[i] < b[i]
          /\ \A j \in 1..(i - 1) : a[j] = b[j]

(***************************************************************************)
(* u64 sequence numbers, as 8 big-endian bytes                             *)
(***************************************************************************)

\* u64::MAX
U64Max == [i \in 1..8 |-> 255]

\* The u64 of a small natural number (n < 2^16).
U64(n) == [i \in 1..8 |-> IF i = 8 THEN n % 256 ELSE IF i = 7 THEN (n \div 256) % 256 ELSE 0]

RECURSIVE Carry(_, _)
Carry(s, i) ==
    IF s[i] = 255 THEN Carry([s EXCEPT ![i] = 0], i - 1)
    ELSE [s EXCEPT ![i] = s[i] + 1]

\* A wrapping increment, as u64::wrapping_add(1) would give.
checked_add_wrapping(s) == IF s = U64Max THEN Zeros(8) ELSE Carry(s, 8)

\* u64::checked_add(1): None on overflow.
checked_add(s) == IF s = U64Max THEN None ELSE Carry(s, 8)

(***************************************************************************)
(* RLP (the rlp crate, as used by lib.rs)                                  *)
(***************************************************************************)

RECURSIVE StripZeros(_)
StripZeros(b) == IF b # <<>> /\ b[1] = 0 THEN StripZeros(Tail(b)) ELSE b

\* Big-endian minimal bytes of a length (< 2^16).
LenBytes(n) == StripZeros(<< n \div 256, n % 256 >>)

\* RlpStream::append of a byte string.
RlpBytes(b) ==
    IF Len(b) = 1 /\ b[1] < 128 THEN b
    ELSE IF Len(b) <= 55 THEN << 128 + Len(b) >> \o b
    ELSE << 183 + Len(LenBytes(Len(b))) >> \o LenBytes(Len(b)) \o b

\* RlpStream::begin_list followed by the items: the list header and payload.
RlpList(payload) ==
    IF Len(payload) <= 55 THEN << 192 + Len(payload) >> \o payload
    ELSE << 247 + Len(LenBytes(Len(payload))) >> \o LenBytes(Len(payload)) \o payload

\* rlp::encode of a u64: minimal big-endian bytes, no leading zero.
RlpU64(s) == RlpBytes(StripZeros(s))

\* rlp::encode of a u16.
RlpU16(n) == RlpBytes(StripZeros(<< n \div 256, n % 256 >>))

\* Rlp::decoder().decode_value: the payload of a data item, or an error.
\* Trailing bytes after the item are not looked at.
RlpData(raw) ==
    IF raw = <<>> THEN [ok |-> FALSE, data |-> <<>>]
    ELSE IF raw[1] < 128 THEN [ok |-> TRUE, data |-> << raw[1] >>]
    ELSE IF raw[1] <= 183 THEN
        LET n == raw[1] - 128 IN
        IF Len(raw) < 1 + n THEN [ok |-> FALSE, data |-> <<>>]
        ELSE IF n = 1 /\ raw[2] < 128 THEN [ok |-> FALSE, data |-> <<>>]
        ELSE [ok |-> TRUE, data |-> SubSeq(raw, 2, 1 + n)]
    ELSE IF raw[1] <= 191 THEN
        LET ll == raw[1] - 183 IN
        IF Len(raw) < 1 + ll \/ ll > 2 THEN [ok |-> FALSE, data |-> <<>>]
        ELSE IF raw[2] = 0 THEN [ok |-> FALSE, data |-> <<>>]
        ELSE LET n == IF ll = 1 THEN raw[2] ELSE raw[2] * 256 + raw[3] IN
             IF Len(raw) < 1 + ll + n THEN [ok |-> FALSE, data |-> <<>>]
             ELSE [ok |-> TRUE, data |-> SubSeq(raw, 2 + ll, 1 + ll + n)]
    ELSE [ok |-> FALSE, data |-> <<>>]

\* rlp::decode::<u16>: at most two bytes, no leading zero byte.
DecodesU16(raw) ==
    LET d == RlpData(raw) IN
    /\ d.ok
    /\ Len(d.data) <= 2
    /\ (d.data # <<>> => d.data[1] # 0)

(***************************************************************************)
(* Constants of lib.rs                                                     *)
(***************************************************************************)

MAX_ENR_SIZE == 300

ID_ENR_KEY == << 105, 100 >>

ENR_VERSION == << 118, 52 >>

IP_ENR_KEY == << 105, 112 >>

IP6_ENR_KEY == << 105, 112, 54 >>

TCP_ENR_KEY == << 116, 99, 112 >>

TCP6_ENR_KEY == << 116, 99, 112, 54 >>

UDP_ENR_KEY == << 117, 100, 112 >>

UDP6_ENR_KEY == << 117, 100, 112, 54 >>

(***************************************************************************)
(* Signature schemes (the keys module: EnrKey, EnrPublicKey, CombinedKey)  *)
(***************************************************************************)

\* PublicKey::enr_key of the secp256k1 scheme: "secp256k1".
SECP256K1_ENR_KEY == << 115, 101, 99, 112, 50, 53, 54, 107, 49 >>

\* PublicKey::enr_key of the ed25519 scheme: "ed25519".
ED25519_ENR_KEY == << 101, 100, 50, 53, 53, 49, 57 >>

\* Signing keys of the secp256k1 scheme.
Secp256k1Keys == {1, 2}

\* Signing keys of the ed25519 scheme.
Ed25519Keys == {3}

\* The signing keys a caller may hold (K = CombinedKey).
SigningKeys == Secp256k1Keys \cup Ed25519Keys

\* EnrKey::public: the public key of a signing key.
public(k) == [scheme |-> IF k \in Secp256k1Keys THEN "secp256k1" ELSE "ed25519", id |-> k]

PublicKeys == {public(k) : k \in SigningKeys}

\* EnrPublicKey::enr_key: the content key the public key is stored under.
enr_key(pk) == IF pk.scheme = "secp256k1" THEN SECP256K1_ENR_KEY ELSE ED25519_ENR_KEY

\* EnrPublicKey::encode: 33 bytes (compressed point) or 32 bytes.
encode(pk) ==
    IF pk.scheme = "secp256k1" THEN << 2, pk.id >> \o Zeros(31)
    ELSE << pk.id >> \o Zeros(31)

\* The value stored for the public key: rlp::encode(&public_key.encode().as_ref()).
PublicKeyValue(pk) == RlpBytes(encode(pk))

\* The hash inside a signature, as an opaque atom: one element that stands for
\* the digest of the message and is equal for equal messages only.
Digest(msg) == << msg >>

\* EnrKey::sign_v4: a 64-byte signature of msg under signing key k.
sign_v4(k, msg) == << k >> \o Digest(msg) \o Zeros(62)

\* EnrPublicKey::verify_v4.
verify_v4(pk, msg, sig) == sig = sign_v4(pk.id, msg)

\* EnrKey::enr_to_public for the union key: each scheme is tried in turn.
enr_to_public(content) ==
    LET secp == {pk \in PublicKeys : /\ pk.scheme = "secp256k1"
                                     /\ SECP256K1_ENR_KEY \in DOMAIN content
                                     /\ content[SECP256K1_ENR_KEY] = PublicKeyValue(pk)}
        ed == {pk \in PublicKeys : /\ pk.scheme = "ed25519"
                                   /\ ED25519_ENR_KEY \in DOMAIN content
                                   /\ content[ED25519_ENR_KEY] = PublicKeyValue(pk)}
    IN IF secp # {} THEN [ok |-> TRUE, key |-> CHOOSE pk \in secp : TRUE]
       ELSE IF ed # {} THEN [ok |-> TRUE, key |-> CHOOSE pk \in ed : TRUE]
       ELSE [ok |-> FALSE, key |-> public(1)]

\* NodeId::from(public_key): 32 bytes derived from the public key.
NodeIdFrom(pk) == << (IF pk.scheme = "secp256k1" THEN 4 ELSE 5), pk.id >> \o Zeros(30)

(***************************************************************************)
(* The record                                                              *)
(***************************************************************************)

RECURSIVE Pairs(_, _)
Pairs(c, ks) ==
    IF ks = {} THEN <<>>
    ELSE LET m == CHOOSE k \in ks : \A o \in ks \ {k} : LexLess(k, o)
         IN RlpBytes(m) \o c[m] \o Pairs(c, ks \ {m})

\* Enr::append_rlp_content: [signature?, seq, k1, v1, k2, v2, ...] in key order.
append_rlp_content(e, include_signature) ==
    RlpList((IF include_signature THEN RlpBytes(e.signature) ELSE <<>>)
            \o RlpU64(e.seq) \o Pairs(e.content, DOMAIN e.content))

\* Enr::rlp_content: the signed payload.
rlp_content(e) == append_rlp_content(e, FALSE)

\* rlp::encode(self)
rlp_encode(e) == append_rlp_content(e, TRUE)

\* Enr::size
size(e) == Len(rlp_encode(e))

\* Enr::id: the data of the "id" entry, if any.
id(e) == IF ID_ENR_KEY \in DOMAIN e.content THEN RlpData(e.content[ID_ENR_KEY]).data ELSE None

\* Enr::public_key: Panics is TRUE where the expect fails.
public_key(e) == enr_to_public(e.content)

\* Enr::verify
verify(e) ==
    /\ public_key(e).ok
    /\ id(e) = ENR_VERSION
    /\ verify_v4(public_key(e).key, rlp_content(e), e.signature)

\* Enr::compute_signature; sign_ok is whether the signing capability succeeds.
compute_signature(e, k, sign_ok) ==
    IF id(e) = ENR_VERSION THEN
        IF sign_ok THEN [err |-> "Ok", signature |-> sign_v4(k, rlp_content(e))]
        ELSE [err |-> "SigningError", signature |-> <<>>]
    ELSE [err |-> "UnsupportedIdentityScheme", signature |-> <<>>]

\* Enr::sign: replaces the signature, returns the previous one.
sign(e, k, sign_ok) ==
    LET s == compute_signature(e, k, sign_ok) IN
    IF s.err = "Ok" THEN [err |-> "Ok", enr |-> [e EXCEPT !.signature = s.signature],
                          prev |-> e.signature]
    ELSE [err |-> s.err, enr |-> e, prev |-> e.signature]

\* PartialEq for Enr: seq, node_id and signature are compared, content is not.
eq(a, b) == a.seq = b.seq /\ a.node_id = b.node_id /\ a.signature = b.signature

\* check_spec_reserved_keys: "Ok" or the error.
check_spec_reserved_keys(key, value) ==
    IF key \in {TCP_ENR_KEY, TCP6_ENR_KEY, UDP_ENR_KEY, UDP6_ENR_KEY} THEN
        IF DecodesU16(value) THEN "Ok" ELSE "InvalidRlpData"
    ELSE IF key = ID_ENR_KEY THEN
        IF ~RlpData(value).ok THEN "InvalidRlpData"
        ELSE IF RlpData(value).data # ENR_VERSION THEN "UnsupportedIdentityScheme"
        ELSE "Ok"
    ELSE IF key = IP_ENR_KEY THEN
        IF RlpData(value).ok /\ Len(RlpData(value).data) = 4 THEN "Ok" ELSE "InvalidRlpData"
    ELSE IF key = IP6_ENR_KEY THEN
        IF RlpData(value).ok /\ Len(RlpData(value).data) = 16 THEN "Ok" ELSE "InvalidRlpData"
    ELSE "Ok"

\* PayloadInfo of the RLP item at the head of b (Rlp::payload_info): the header
\* length and the payload length, refused when the length of a long form starts
\* with a zero byte or is below 56, or when b is shorter than the item.
payload_info(b) ==
    LET bad == [ok |-> FALSE, header_len |-> 0, value_len |-> 0]
        long(ll) ==
            IF Len(b) < 1 + ll \/ ll > 2 \/ b[2] = 0 THEN bad
            ELSE LET n == IF ll = 1 THEN b[2] ELSE b[2] * 256 + b[3]
                 IN IF n <= 55 THEN bad ELSE [ok |-> TRUE, header_len |-> 1 + ll, value_len |-> n]
        item == IF b = <<>> THEN bad
                ELSE IF b[1] < 128 THEN [ok |-> TRUE, header_len |-> 0, value_len |-> 1]
                ELSE IF b[1] <= 183 THEN [ok |-> TRUE, header_len |-> 1, value_len |-> b[1] - 128]
                ELSE IF b[1] <= 191 THEN long(b[1] - 183)
                ELSE IF b[1] <= 247 THEN [ok |-> TRUE, header_len |-> 1, value_len |-> b[1] - 192]
                ELSE long(b[1] - 247)
    IN IF item.ok /\ item.header_len + item.value_len <= Len(b) THEN item ELSE bad

\* Rlp::iter over a list payload: the raw items, up to the first one that does
\* not parse.
RECURSIVE Items(_)
Items(b) ==
    LET pi == payload_info(b)
        n == pi.header_len + pi.value_len
    IN IF ~pi.ok THEN <<>>
       ELSE << SubSeq(b, 1, n) >> \o Items(SubSeq(b, n + 1, Len(b)))

\* Rlp::data of an item that parsed: its payload.
item_data(item) ==
    LET pi == payload_info(item)
    IN SubSeq(item, pi.header_len + 1, pi.header_len + pi.value_len)

\* as_val::<u64> that takes an integer written with leading zero bytes.
as_val_u64_any_form(item) ==
    LET d == item_data(item)
        n == IF Len(d) > 8 THEN SubSeq(d, Len(d) - 7, Len(d)) ELSE d
    IN [ok |-> TRUE, val |-> Zeros(8 - Len(n)) \o n]

\* Rlp::as_val::<u64>: at most 8 bytes, no leading zero byte, a single byte not
\* written in the long way; val is the number as 8 bytes.
as_val_u64(item) ==
    LET d == RlpData(item)
    IN IF d.ok /\ Len(d.data) <= 8 /\ (d.data # <<>> => d.data[1] # 0)
       THEN [ok |-> TRUE, val |-> Zeros(8 - Len(d.data)) \o d.data]
       ELSE [ok |-> FALSE, val |-> Zeros(8)]

\* The loop of decode without the comparison of each key with the previous one.
RECURSIVE DecodePairsAnyOrder(_, _, _)
DecodePairsAnyOrder(items, prev, content) ==
    IF items = <<>> THEN [err |-> "Ok", content |-> content]
    ELSE IF Len(items) = 1 THEN [err |-> "List not a multiple of 2", content |-> content]
    ELSE LET key == item_data(items[1])
             value == items[2]
         IN IF check_spec_reserved_keys(key, value) # "Ok"
                THEN [err |-> "Invalid data/encoding in reserved key.", content |-> content]
            ELSE DecodePairsAnyOrder(SubSeq(items, 3, Len(items)), key,
                                     MapInsert(content, key, value))

\* The loop of Decodable::decode over the key/value items: the content map, or
\* the first error.  prev is the previous key (None at the start).
RECURSIVE DecodePairs(_, _, _)
DecodePairs(items, prev, content) ==
    IF items = <<>> THEN [err |-> "Ok", content |-> content]
    ELSE IF Len(items) = 1 THEN [err |-> "List not a multiple of 2", content |-> content]
    ELSE LET key == item_data(items[1])
             value == items[2]
         IN IF check_spec_reserved_keys(key, value) # "Ok"
                THEN [err |-> "Invalid data/encoding in reserved key.", content |-> content]
            ELSE IF prev # None /\ ~LexLess(prev, key)
                THEN [err |-> "Unsorted keys", content |-> content]
            ELSE DecodePairs(SubSeq(items, 3, Len(items)), key, MapInsert(content, key, value))

\* decode without the comparison of the length of the input with the length its
\* header declares.
decode_any_length(raw) ==
    LET payload_info_ == payload_info(raw)
        rlp_iter == Items(SubSeq(raw, payload_info_.header_len + 1, Len(raw)))
        signature == item_data(rlp_iter[1])
        seq == as_val_u64(rlp_iter[2])
        pairs == DecodePairs(SubSeq(rlp_iter, 3, Len(rlp_iter)), None, << >>)
        public_key_ == enr_to_public(pairs.content)
        e == [seq |-> seq.val, node_id |-> NodeIdFrom(public_key_.key),
              content |-> pairs.content, signature |-> signature]
        none == [seq |-> Zeros(8), node_id |-> <<>>, content |-> << >>, signature |-> <<>>]
    IN
    IF Len(raw) > MAX_ENR_SIZE THEN [err |-> "enr exceeds max size", enr |-> none]
    ELSE IF raw = <<>> \/ raw[1] < 192 THEN [err |-> "RlpExpectedToBeList", enr |-> none]
    ELSE IF ~payload_info_.ok THEN [err |-> "RlpIsTooShort", enr |-> none]
    ELSE IF Len(rlp_iter) = 0 \/ Len(rlp_iter) % 2 # 0
        THEN [err |-> "List not a multiple of two", enr |-> none]
    ELSE IF ~seq.ok THEN [err |-> "RlpInvalidIndirection", enr |-> none]
    ELSE IF pairs.err # "Ok" THEN [err |-> pairs.err, enr |-> none]
    ELSE IF ~public_key_.ok THEN [err |-> "UnsupportedIdentityScheme", enr |-> none]
    ELSE IF ~verify(e) THEN [err |-> "Invalid Signature", enr |-> none]
    ELSE [err |-> "Ok", enr |-> e]

\* decode that refuses an input of MAX_ENR_SIZE bytes too (>= for >).
decode_exclusive_bound(raw) ==
    LET payload_info_ == payload_info(raw)
        rlp_iter == Items(SubSeq(raw, payload_info_.header_len + 1, Len(raw)))
        signature == item_data(rlp_iter[1])
        seq == as_val_u64(rlp_iter[2])
        pairs == DecodePairs(SubSeq(rlp_iter, 3, Len(rlp_iter)), None, << >>)
        public_key_ == enr_to_public(pairs.content)
        e == [seq |-> seq.val, node_id |-> NodeIdFrom(public_key_.key),
              content |-> pairs.content, signature |-> signature]
        none == [seq |-> Zeros(8), node_id |-> <<>>, content |-> << >>, signature |-> <<>>]
    IN
    IF Len(raw) >= MAX_ENR_SIZE THEN [err |-> "enr exceeds max size", enr |-> none]
    ELSE IF raw = <<>> \/ raw[1] < 192 THEN [err |-> "RlpExpectedToBeList", enr |-> none]
    ELSE IF ~payload_info_.ok THEN [err |-> "RlpIsTooShort", enr |-> none]
    ELSE IF Len(raw) # payload_info_.header_len + payload_info_.value_len
        THEN [err |-> "RlpInconsistentLengthAndData", enr |-> none]
    ELSE IF Len(rlp_iter) = 0 \/ Len(rlp_iter) % 2 # 0
        THEN [err |-> "List not a multiple of two", enr |-> none]
    ELSE IF ~seq.ok THEN [err |-> "RlpInvalidIndirection", enr |-> none]
    ELSE IF pairs.err # "Ok" THEN [err |-> pairs.err, enr |-> none]
    ELSE IF ~public_key_.ok THEN [err |-> "UnsupportedIdentityScheme", enr |-> none]
    ELSE IF ~verify(e) THEN [err |-> "Invalid Signature", enr |-> none]
    ELSE [err |-> "Ok", enr |-> e]

\* decode that returns the parsed record without verifying its signature.
decode_without_verify(raw) ==
    LET payload_info_ == payload_info(raw)
        rlp_iter == Items(SubSeq(raw, payload_info_.header_len + 1, Len(raw)))
        signature == item_data(rlp_iter[1])
        seq == as_val_u64(rlp_iter[2])
        pairs == DecodePairs(SubSeq(rlp_iter, 3, Len(rlp_iter)), None, << >>)
        public_key_ == enr_to_public(pairs.content)
        e == [seq |-> seq.val, node_id |-> NodeIdFrom(public_key_.key),
              content |-> pairs.content, signature |-> signature]
        none == [seq |-> Zeros(8), node_id |-> <<>>, content |-> << >>, signature |-> <<>>]
    IN
    IF Len(raw) > MAX_ENR_SIZE THEN [err |-> "enr exceeds max size", enr |-> none]
    ELSE IF raw = <<>> \/ raw[1] < 192 THEN [err |-> "RlpExpectedToBeList", enr |-> none]
    ELSE IF ~payload_info_.ok THEN [err |-> "RlpIsTooShort", enr |-> none]
    ELSE IF Len(raw) # payload_info_.header_len + payload_info_.value_len
        THEN [err |-> "RlpInconsistentLengthAndData", enr |-> none]
    ELSE IF Len(rlp_iter) = 0 \/ Len(rlp_iter) % 2 # 0
        THEN [err |-> "List not a multiple of two", enr |-> none]
    ELSE IF ~seq.ok THEN [err |-> "RlpInvalidIndirection", enr |-> none]
    ELSE IF pairs.err # "Ok" THEN [err |-> pairs.err, enr |-> none]
    ELSE IF ~public_key_.ok THEN [err |-> "UnsupportedIdentityScheme", enr |-> none]
    ELSE [err |-> "Ok", enr |-> e]

\* Decodable::decode for Enr: the error ("Ok" when there is none) and the record.
decode(raw) ==
    LET payload_info_ == payload_info(raw)
        rlp_iter == Items(SubSeq(raw, payload_info_.header_len + 1, Len(raw)))
        signature == item_data(rlp_iter[1])
        seq == as_val_u64(rlp_iter[2])
        pairs == DecodePairs(SubSeq(rlp_iter, 3, Len(rlp_iter)), None, << >>)
        public_key_ == enr_to_public(pairs.content)
        e == [seq |-> seq.val, node_id |-> NodeIdFrom(public_key_.key),
              content |-> pairs.content, signature |-> signature]
        none == [seq |-> Zeros(8), node_id |-> <<>>, content |-> << >>, signature |-> <<>>]
    IN
    IF Len(raw) > MAX_ENR_SIZE THEN [err |-> "enr exceeds max size", enr |-> none]
    ELSE IF raw = <<>> \/ raw[1] < 192 THEN [err |-> "RlpExpectedToBeList", enr |-> none]
    ELSE IF ~payload_info_.ok THEN [err |-> "RlpIsTooShort", enr |-> none]
    ELSE IF Len(raw) # payload_info_.header_len + payload_info_.value_len
        THEN [err |-> "RlpInconsistentLengthAndData", enr |-> none]
    ELSE IF Len(rlp_iter) = 0 \/ Len(rlp_iter) % 2 # 0
        THEN [err |-> "List not a multiple of two", enr |-> none]
    ELSE IF ~seq.ok THEN [err |-> "RlpInvalidIndirection", enr |-> none]
    ELSE IF pairs.err # "Ok" THEN [err |-> pairs.err, enr |-> none]
    ELSE IF ~public_key_.ok THEN [err |-> "UnsupportedIdentityScheme", enr |-> none]
    ELSE IF ~verify(e) THEN [err |-> "Invalid Signature", enr |-> none]
    ELSE [err |-> "Ok", enr |-> e]

\* The URL-safe base64 alphabet: the character (ASCII) of a 6-bit value.
B64Char(n) ==
    IF n < 26 THEN 65 + n
    ELSE IF n < 52 THEN 97 + (n - 26)
    ELSE IF n < 62 THEN 48 + (n - 52)
    ELSE IF n = 62 THEN 45 ELSE 95

\* The 6-bit value of a character, or -1 for a character outside the alphabet
\* (the padding character '=' included).
B64Val(c) ==
    IF c \in 65..90 THEN c - 65
    ELSE IF c \in 97..122 THEN c - 97 + 26
    ELSE IF c \in 48..57 THEN c - 48 + 52
    ELSE IF c = 45 THEN 62
    ELSE IF c = 95 THEN 63 ELSE -1

\* The digest inside a signature is opaque: the group of three bytes that holds
\* it is carried through the text form as one symbol.  This is the index (from
\* 0) of that group in an encoded record whose first byte is first_byte.
DigestGroup(first_byte) ==
    LET header_len == IF first_byte = 249 THEN 3 ELSE IF first_byte = 248 THEN 2 ELSE 1
    IN (header_len + 3) \div 3

\* URL_SAFE_NO_PAD.encode: four characters for three bytes, two or three
\* characters for a last group of one or two bytes, no padding.
B64Encode(bytes) ==
    LET n == Len(bytes)
        len == 4 * (n \div 3) + (IF n % 3 = 0 THEN 0 ELSE (n % 3) + 1)
        opaque == IF n = 0 THEN -1 ELSE DigestGroup(bytes[1])
        at(j) == IF j <= n THEN bytes[j] ELSE 0
        char(g, p) ==
            LET b1 == at(3 * g + 1)
                b2 == at(3 * g + 2)
                b3 == at(3 * g + 3)
            IN B64Char(CASE p = 0 -> b1 \div 4
                         [] p = 1 -> (b1 % 4) * 16 + (b2 \div 16)
                         [] p = 2 -> (b2 % 16) * 4 + (b3 \div 64)
                         [] OTHER -> b3 % 64)
    IN [i \in 1..len |->
           LET g == (i - 1) \div 4
               p == (i - 1) % 4
           IN IF g = opaque
              THEN IF p = 0 THEN << at(3 * g + 1), at(3 * g + 2), at(3 * g + 3) >> ELSE 65
              ELSE char(g, p)]

\* URL_SAFE_NO_PAD.decode: refuses a length of 4k + 1, a character outside the
\* alphabet, and a last character with bits that belong to no byte.
B64Decode(text) ==
    LET len == Len(text)
        n == 3 * (len \div 4) + (IF len % 4 = 0 THEN 0 ELSE (len % 4) - 1)
        first_byte == IF len < 2 THEN 0 ELSE B64Val(text[1]) * 4 + (B64Val(text[2]) \div 16)
        opaque == IF len < 2 \/ B64Val(text[1]) < 0 \/ B64Val(text[2]) < 0 THEN -1
                  ELSE DigestGroup(first_byte)
        plain == {i \in 1..len : (i - 1) \div 4 # opaque}
        val(i) == IF i <= len THEN B64Val(text[i]) ELSE 0
        last_bits == IF len % 4 = 2 THEN val(len) % 16
                     ELSE IF len % 4 = 3 THEN val(len) % 4 ELSE 0
        byte(g, p) ==
            CASE p = 0 -> val(4 * g + 1) * 4 + (val(4 * g + 2) \div 16)
              [] p = 1 -> (val(4 * g + 2) % 16) * 16 + (val(4 * g + 3) \div 4)
              [] OTHER -> (val(4 * g + 3) % 4) * 64 + val(4 * g + 4)
    IN IF len % 4 = 1 THEN [ok |-> FALSE, bytes |-> <<>>]
       ELSE IF \E i \in plain : B64Val(text[i]) < 0 THEN [ok |-> FALSE, bytes |-> <<>>]
       ELSE IF (len - 1) \div 4 # opaque /\ last_bits # 0 THEN [ok |-> FALSE, bytes |-> <<>>]
       ELSE [ok |-> TRUE,
             bytes |-> [j \in 1..n |->
                           LET g == (j - 1) \div 3
                               p == (j - 1) % 3
                           IN IF g = opaque THEN text[4 * g + 1][p + 1] ELSE byte(g, p)]]

\* The prefix "enr:".
ENR_PREFIX == << 101, 110, 114, 58 >>

\* Enr::to_base64
to_base64(e) == ENR_PREFIX \o B64Encode(rlp_encode(e))

\* FromStr for Enr: the error ("Ok" when there is none) and the record.
from_str(base64_string) ==
    LET none == [seq |-> Zeros(8), node_id |-> <<>>, content |-> << >>, signature |-> <<>>]
        decode_string == IF Len(base64_string) >= 4 /\ SubSeq(base64_string, 1, 4) = ENR_PREFIX
                         THEN SubSeq(base64_string, 5, Len(base64_string))
                         ELSE base64_string
        bytes == B64Decode(decode_string)
        d == decode(bytes.bytes)
    IN IF Len(base64_string) < 4 THEN [err |-> "Invalid ENR string", enr |-> none]
       ELSE IF ~bytes.ok THEN [err |-> "Invalid base64 encoding", enr |-> none]
       ELSE IF d.err # "Ok" THEN [err |-> "Invalid ENR", enr |-> none]
       ELSE d

\* Enr::insert_raw_rlp: the record after the call and the call's result.
\* k is the signing key, sign_ok whether its signing capability succeeds.
insert_raw_rlp(e, key, value, k, sign_ok) ==
    LET chk == check_spec_reserved_keys(key, value)
        previous_value == MapGet(e.content, key)
        c1 == MapInsert(e.content, key, value)
        pk == public(k)
        previous_key == MapGet(c1, enr_key(pk))
        c2 == MapInsert(c1, enr_key(pk), PublicKeyValue(pk))
        e2 == [e EXCEPT !.content = c2]
        reverted == MapRestore(MapRestore(c2, enr_key(pk), previous_key), key, previous_value)
        next_seq == checked_add(e.seq)
        e3 == [e2 EXCEPT !.seq = next_seq]
        s == sign(e3, k, sign_ok)
        e4 == [s.enr EXCEPT !.node_id = NodeIdFrom(pk)]
    IN
    IF chk # "Ok" THEN [enr |-> e, res |-> chk]
    ELSE IF size(e2) > MAX_ENR_SIZE THEN
        [enr |-> [e EXCEPT !.content = reverted], res |-> "ExceedsMaxSize"]
    ELSE IF next_seq = None THEN [enr |-> e2, res |-> "SequenceNumberTooHigh"]
    ELSE IF s.err # "Ok" THEN [enr |-> e3, res |-> s.err]
    ELSE IF size(e4) > MAX_ENR_SIZE THEN [enr |-> e4, res |-> "ExceedsMaxSize"]
    ELSE [enr |-> e4, res |-> "Ok"]

\* Enr::insert: the value is RLP-encoded, then insert_raw_rlp.
insert(e, key, value, k, sign_ok) == insert_raw_rlp(e, key, RlpBytes(value), k, sign_ok)

\* set_socket that signs but leaves the cached node_id as it was.
set_socket_keeps_node_id(e, addr, port, k, sign_ok, is_tcp) ==
    LET is_v4 == Len(addr) = 4
        port_string == IF is_tcp THEN TCP_ENR_KEY ELSE UDP_ENR_KEY
        port_v6_string == IF is_tcp THEN TCP6_ENR_KEY ELSE UDP6_ENR_KEY
        ip_key == IF is_v4 THEN IP_ENR_KEY ELSE IP6_ENR_KEY
        port_key == IF is_v4 THEN port_string ELSE port_v6_string
        prev_ip == MapGet(e.content, ip_key)
        c1 == MapInsert(e.content, ip_key, RlpBytes(addr))
        prev_port == MapGet(c1, port_key)
        c2 == MapInsert(c1, port_key, RlpU16(port))
        pk == public(k)
        previous_key == MapGet(c2, enr_key(pk))
        c3 == MapInsert(c2, enr_key(pk), PublicKeyValue(pk))
        e3 == [e EXCEPT !.content = c3]
        r1 == MapRestore(c3, enr_key(pk), previous_key)
        r2 == IF is_v4 THEN MapRestore(r1, IP_ENR_KEY, prev_ip)
              ELSE IF prev_ip # None THEN MapInsert(r1, IP_ENR_KEY, prev_ip)
              ELSE MapRemove(r1, IP6_ENR_KEY)
        r3 == MapRestore(r2, port_key, prev_port)
        next_seq == checked_add(e.seq)
        e4 == [e3 EXCEPT !.seq = next_seq]
        s == sign(e4, k, sign_ok)
        e5 == s.enr
    IN
    IF size(e3) > MAX_ENR_SIZE THEN [enr |-> [e EXCEPT !.content = r3], res |-> "ExceedsMaxSize"]
    ELSE IF next_seq = None THEN [enr |-> e3, res |-> "SequenceNumberTooHigh"]
    ELSE IF s.err # "Ok" THEN [enr |-> e4, res |-> s.err]
    ELSE [enr |-> e5, res |-> "Ok"]

\* Enr::set_socket (set_udp_socket, set_tcp_socket): addr is the 4 or 16 address bytes.
set_socket(e, addr, port, k, sign_ok, is_tcp) ==
    LET is_v4 == Len(addr) = 4
        port_string == IF is_tcp THEN TCP_ENR_KEY ELSE UDP_ENR_KEY
        port_v6_string == IF is_tcp THEN TCP6_ENR_KEY ELSE UDP6_ENR_KEY
        ip_key == IF is_v4 THEN IP_ENR_KEY ELSE IP6_ENR_KEY
        port_key == IF is_v4 THEN port_string ELSE port_v6_string
        prev_ip == MapGet(e.content, ip_key)
        c1 == MapInsert(e.content, ip_key, RlpBytes(addr))
        prev_port == MapGet(c1, port_key)
        c2 == MapInsert(c1, port_key, RlpU16(port))
        pk == public(k)
        previous_key == MapGet(c2, enr_key(pk))
        c3 == MapInsert(c2, enr_key(pk), PublicKeyValue(pk))
        e3 == [e EXCEPT !.content = c3]
        r1 == MapRestore(c3, enr_key(pk), previous_key)
        r2 == IF is_v4 THEN MapRestore(r1, IP_ENR_KEY, prev_ip)
              ELSE IF prev_ip # None THEN MapInsert(r1, IP_ENR_KEY, prev_ip)
              ELSE MapRemove(r1, IP6_ENR_KEY)
        r3 == MapRestore(r2, port_key, prev_port)
        next_seq == checked_add(e.seq)
        e4 == [e3 EXCEPT !.seq = next_seq]
        s == sign(e4, k, sign_ok)
        e5 == [s.enr EXCEPT !.node_id = NodeIdFrom(pk)]
    IN
    IF size(e3) > MAX_ENR_SIZE THEN [enr |-> [e EXCEPT !.content = r3], res |-> "ExceedsMaxSize"]
    ELSE IF next_seq = None THEN [enr |-> e3, res |-> "SequenceNumberTooHigh"]
    ELSE IF s.err # "Ok" THEN [enr |-> e4, res |-> s.err]
    ELSE [enr |-> e5, res |-> "Ok"]

RECURSIVE RemoveAll(_, _)
RemoveAll(c, keys) == IF keys = <<>> THEN c ELSE RemoveAll(MapRemove(c, Head(keys)), Tail(keys))

\* The insert loop of remove_insert: the content after the loop, or the first error.
RECURSIVE InsertAll(_, _)
InsertAll(c, kvs) ==
    IF kvs = <<>> THEN [err |-> "Ok", content |-> c]
    ELSE LET key == Head(kvs)[1]
             value == Head(kvs)[2]
             chk == check_spec_reserved_keys(key, RlpBytes(value))
         IN IF key = ID_ENR_KEY /\ value # ENR_VERSION
                THEN [err |-> "UnsupportedIdentityScheme", content |-> c]
            ELSE IF chk # "Ok" THEN [err |-> chk, content |-> c]
            ELSE InsertAll(MapInsert(c, key, RlpBytes(value)), Tail(kvs))

\* remove_insert without the restore of the backup on the final size check.
remove_insert_keeps_oversize(e, remove_keys, insert_key_values, k, sign_ok) ==
    LET c1 == RemoveAll(e.content, remove_keys)
        pk == public(k)
        c2 == MapInsert(c1, enr_key(pk), PublicKeyValue(pk))
        ins == InsertAll(c2, insert_key_values)
        e3 == [e EXCEPT !.content = ins.content]
        s == sign(e3, k, sign_ok)
        e4 == [s.enr EXCEPT !.node_id = NodeIdFrom(pk)]
    IN
    IF ins.err # "Ok" THEN [enr |-> e, res |-> ins.err]
    ELSE IF checked_add(e.seq) = None THEN [enr |-> e, res |-> "SequenceNumberTooHigh"]
    ELSE IF s.err # "Ok" THEN [enr |-> e, res |-> s.err]
    ELSE IF size(e4) > MAX_ENR_SIZE THEN [enr |-> e4, res |-> "ExceedsMaxSize"]
    ELSE [enr |-> e4, res |-> "Ok"]

\* Enr::remove_insert
remove_insert(e, remove_keys, insert_key_values, k, sign_ok) ==
    LET enr_backup == e
        c1 == RemoveAll(e.content, remove_keys)
        pk == public(k)
        c2 == MapInsert(c1, enr_key(pk), PublicKeyValue(pk))
        ins == InsertAll(c2, insert_key_values)
        e3 == [e EXCEPT !.content = ins.content]
        s == sign(e3, k, sign_ok)
        e4 == [s.enr EXCEPT !.node_id = NodeIdFrom(pk)]
    IN
    IF ins.err # "Ok" THEN [enr |-> enr_backup, res |-> ins.err]
    ELSE IF checked_add(e.seq) = None THEN [enr |-> enr_backup, res |-> "SequenceNumberTooHigh"]
    ELSE IF s.err # "Ok" THEN [enr |-> enr_backup, res |-> s.err]
    ELSE IF size(e4) > MAX_ENR_SIZE THEN [enr |-> enr_backup, res |-> "ExceedsMaxSize"]
    ELSE [enr |-> e4, res |-> "Ok"]

\* set_seq that restores seq but not the signature when the size check fails.
set_seq_keeps_signature(e, seq_, k, sign_ok) ==
    LET prev_seq == e.seq
        e1 == [e EXCEPT !.seq = seq_]
        s == sign(e1, k, sign_ok)
        e2 == [s.enr EXCEPT !.node_id = NodeIdFrom(public(k))]
    IN
    IF s.err # "Ok" THEN [enr |-> [e1 EXCEPT !.seq = prev_seq], res |-> s.err]
    ELSE IF size(s.enr) > MAX_ENR_SIZE THEN
        [enr |-> [s.enr EXCEPT !.seq = prev_seq], res |-> "ExceedsMaxSize"]
    ELSE [enr |-> e2, res |-> "Ok"]

\* Enr::set_seq
set_seq(e, seq_, k, sign_ok) ==
    LET prev_seq == e.seq
        e1 == [e EXCEPT !.seq = seq_]
        s == sign(e1, k, sign_ok)
        e2 == [s.enr EXCEPT !.node_id = NodeIdFrom(public(k))]
    IN
    IF s.err # "Ok" THEN [enr |-> [e1 EXCEPT !.seq = prev_seq], res |-> s.err]
    ELSE IF size(s.enr) > MAX_ENR_SIZE THEN
        [enr |-> [s.enr EXCEPT !.seq = prev_seq, !.signature = s.prev], res |-> "ExceedsMaxSize"]
    ELSE [enr |-> e2, res |-> "Ok"]

(***************************************************************************)
(* The update guard (update.rs).  Update, Op, to_valid_op and              *)
(* apply_and_invert belong to the module ops.                              *)
(***************************************************************************)

\* Update::to_valid_op: "Ok" or the error of an intent.
to_valid_op(update) ==
    IF update.kind = "insert" THEN check_spec_reserved_keys(update.key, update.value)
    ELSE "Ok"

\* Op::apply_and_invert: the content after the operation, and its inverse.
apply_and_invert(op, c) ==
    LET prev == MapGet(c, op.key)
        inverse == IF prev # None THEN [kind |-> "insert", key |-> op.key, value |-> prev]
                   ELSE [kind |-> "remove", key |-> op.key, value |-> <<>>]
    IN [content |-> IF op.kind = "insert" THEN MapInsert(c, op.key, op.value)
                    ELSE MapRemove(c, op.key),
        inverse |-> inverse]

\* The loop of Guard::new that puts each inverse in front of the ones before it.
RECURSIVE ApplyAllNewestFirst(_, _, _)
ApplyAllNewestFirst(c, ops, inverses) ==
    IF ops = <<>> THEN [content |-> c, inverses |-> inverses]
    ELSE LET r == apply_and_invert(Head(ops), c)
         IN ApplyAllNewestFirst(r.content, Tail(ops), << r.inverse >> \o inverses)

\* The loop of Guard::new over the valid operations: each is applied to the
\* content and its inverse is collected, in the order of the operations.
RECURSIVE ApplyAll(_, _, _)
ApplyAll(c, ops, inverses) ==
    IF ops = <<>> THEN [content |-> c, inverses |-> inverses]
    ELSE LET r == apply_and_invert(Head(ops), c)
         IN ApplyAll(r.content, Tail(ops), Append(inverses, r.inverse))

\* Guard::new that applies each update as soon as it is validated: the updates
\* before the first invalid one stay applied.
guard_new_applies_as_validated(e, updates) ==
    LET bad == {i \in 1..Len(updates) : to_valid_op(updates[i]) # "Ok"}
        first == CHOOSE i \in bad : \A j \in bad : i <= j
        r == ApplyAll(e.content, updates, <<>>)
        partial == ApplyAll(e.content, SubSeq(updates, 1, first - 1), <<>>)
    IN IF bad # {} THEN [enr |-> [e EXCEPT !.content = partial.content],
                         res |-> to_valid_op(updates[first]), inverses |-> <<>>]
       ELSE [enr |-> [e EXCEPT !.content = r.content], res |-> "Ok", inverses |-> r.inverses]

\* Guard::new: every update is validated before any is applied.
guard_new(e, updates) ==
    LET bad == {i \in 1..Len(updates) : to_valid_op(updates[i]) # "Ok"}
        first == CHOOSE i \in bad : \A j \in bad : i <= j
        r == ApplyAll(e.content, updates, <<>>)
    IN IF bad # {} THEN [enr |-> e, res |-> to_valid_op(updates[first]), inverses |-> <<>>]
       ELSE [enr |-> [e EXCEPT !.content = r.content], res |-> "Ok", inverses |-> r.inverses]

\* Guard::new for a single update: the inverse is one operation.
guard_new_single(e, update) ==
    LET valid == to_valid_op(update)
        r == apply_and_invert(update, e.content)
    IN IF valid # "Ok" THEN [enr |-> e, res |-> valid, inverses |-> <<>>]
       ELSE [enr |-> [e EXCEPT !.content = r.content], res |-> "Ok", inverses |-> r.inverse]

\* Guard::new for a tuple that applies each update as soon as it is validated.
guard_new_tuple_applies_as_validated(e, updates) ==
    guard_new_applies_as_validated(e, updates)

\* Guard::new for a tuple of two or three updates (gen_pre_update_impl): the
\* updates are validated from left to right, the first error returns; then
\* they are applied from left to right and the inverses form a tuple.
guard_new_tuple(e, updates) ==
    LET up0 == to_valid_op(updates[1])
        up1 == to_valid_op(updates[2])
        up2 == to_valid_op(updates[3])
        r0 == apply_and_invert(updates[1], e.content)
        r1 == apply_and_invert(updates[2], r0.content)
        r2 == apply_and_invert(updates[3], r1.content)
    IN IF up0 # "Ok" THEN [enr |-> e, res |-> up0, inverses |-> <<>>]
       ELSE IF up1 # "Ok" THEN [enr |-> e, res |-> up1, inverses |-> <<>>]
       ELSE IF Len(updates) = 2
           THEN [enr |-> [e EXCEPT !.content = r1.content], res |-> "Ok",
                 inverses |-> << r0.inverse, r1.inverse >>]
       ELSE IF up2 # "Ok" THEN [enr |-> e, res |-> up2, inverses |-> <<>>]
       ELSE [enr |-> [e EXCEPT !.content = r2.content], res |-> "Ok",
             inverses |-> << r0.inverse, r1.inverse, r2.inverse >>]

\* The forms of Guard::new that take a batch of this length.
GuardForms(updates) ==
    {"vec"} \cup (IF Len(updates) = 1 THEN {"single"} ELSE {})
            \cup (IF Len(updates) \in {2, 3} THEN {"tuple"} ELSE {})

\* Guard::new in the given form; the inverses are listed in their order.
guard_new_form(form, e, updates) ==
    CASE form = "single" ->
             LET r == guard_new_single(e, updates[1])
             IN [r EXCEPT !.inverses = IF r.res = "Ok" THEN << r.inverses >> ELSE <<>>]
      [] form = "tuple" -> guard_new_tuple(e, updates)
      [] OTHER -> guard_new(e, updates)

\* Guard::finish that stores the node id with the public key, before the steps
\* that can fail.
guard_finish_node_id_first(e, signing_key, sign_ok) ==
    LET pk == public(signing_key)
        e1 == [e EXCEPT !.content = MapInsert(e.content, enr_key(pk), PublicKeyValue(pk)),
                        !.node_id = NodeIdFrom(pk)]
        next_seq == checked_add(e.seq)
        e2 == [e1 EXCEPT !.seq = next_seq]
        s == compute_signature(e2, signing_key, sign_ok)
        e3 == [e2 EXCEPT !.signature = s.signature]
    IN
    IF next_seq = None THEN [enr |-> e1, res |-> "SequenceNumberTooHigh"]
    ELSE IF s.err # "Ok" THEN [enr |-> e2, res |-> "SigningError"]
    ELSE IF size(e3) > MAX_ENR_SIZE THEN [enr |-> e3, res |-> "ExceedsMaxSize"]
    ELSE [enr |-> e3, res |-> "Ok"]

\* Guard::finish.  On an error a Revert is returned, which has no operation and no
\* destructor: the record is left as finish leaves it.
guard_finish(e, signing_key, sign_ok) ==
    LET pk == public(signing_key)
        e1 == [e EXCEPT !.content = MapInsert(e.content, enr_key(pk), PublicKeyValue(pk))]
        next_seq == checked_add(e.seq)
        e2 == [e1 EXCEPT !.seq = next_seq]
        s == compute_signature(e2, signing_key, sign_ok)
        e3 == [e2 EXCEPT !.signature = s.signature]
        e4 == [e3 EXCEPT !.node_id = NodeIdFrom(pk)]
    IN
    IF next_seq = None THEN [enr |-> e1, res |-> "SequenceNumberTooHigh"]
    ELSE IF s.err # "Ok" THEN [enr |-> e2, res |-> "SigningError"]
    ELSE IF size(e3) > MAX_ENR_SIZE THEN [enr |-> e3, res |-> "ExceedsMaxSize"]
    ELSE [enr |-> e4, res |-> "Ok"]

(***************************************************************************)
(* The state machine: one record, mutated by its owner                     *)
(***************************************************************************)

VARIABLES
    enr,    \* the record: [seq, node_id, content, signature]
    pre,    \* the record as it was when the last call (or update) was started
    last,   \* the last call: its operation, arguments, signing key and result
    guard,  \* the update guard borrowing the record, if any, with its inverses
    calls   \* number of calls made so far

vars == << enr, pre, last, guard, calls >>

\* Number of calls explored on one record.
MaxCalls == 1

\* Records start at most this many bytes below MAX_ENR_SIZE, or with no filler entry.
MaxSlack == 1

\* An application key ("zz") holding opaque data.
APP_KEY == << 122, 122 >>

\* Signing keys of the records the model starts from: one of each scheme.
InitKeys == {1, 3}

\* Sequence numbers of the records the model starts from.
InitSeqs == {U64(1), U64(127), U64Max}

IPV4 == << 10, 0, 0, 1 >>

IPV6 == Fill(16, 1)

\* A port whose minimal encoding takes two bytes (30303), and one below 128.
Ports == {30303}

\* A record as decode or the builder returns it: signed by k, id "v4", its public key,
\* optionally an address, optionally an application entry of len bytes.
BuiltEnr(k, seq_, with_addr, len) ==
    LET pk == public(k)
        c0 == [x \in {ID_ENR_KEY, enr_key(pk)} |->
                  IF x = ID_ENR_KEY THEN RlpBytes(ENR_VERSION) ELSE PublicKeyValue(pk)]
        c1 == IF with_addr
              THEN MapInsert(MapInsert(c0, IP6_ENR_KEY, RlpBytes(IPV6)), UDP6_ENR_KEY, RlpU16(30303))
              ELSE c0
        c2 == IF len > 0 THEN MapInsert(c1, APP_KEY, RlpBytes(Fill(len, 120))) ELSE c1
        e0 == [seq |-> seq_, node_id |-> NodeIdFrom(pk), content |-> c2, signature |-> <<>>]
    IN [e0 EXCEPT !.signature = sign_v4(k, rlp_content(e0))]

NoGuard == [active |-> FALSE, inverses |-> <<>>]

Init ==
    \E k \in InitKeys, s \in InitSeqs, a \in BOOLEAN, len \in 0..MAX_ENR_SIZE :
        LET e == BuiltEnr(k, s, a, len) IN
        /\ len = 0 \/ size(e) \in (MAX_ENR_SIZE - MaxSlack)..MAX_ENR_SIZE
        /\ enr = e
        /\ pre = e
        /\ last = [op |-> "decode", args |-> "valid", key |-> k, res |-> "Ok"]
        /\ guard = NoGuard
        /\ calls = 0

\* A call of operation op with arguments args and signing key k that ends in r.
Call(op, args, k, r) ==
    /\ calls < MaxCalls
    /\ ~guard.active
    /\ enr' = r.enr
    /\ pre' = enr
    /\ last' = [op |-> op, args |-> args, key |-> k, res |-> r.res]
    /\ calls' = calls + 1
    /\ UNCHANGED guard

\* Arguments of insert: (key, value before RLP encoding).
InsertArgs ==
    { << ID_ENR_KEY, ENR_VERSION >>, << ID_ENR_KEY, << 118, 53 >> >>,
      << TCP_ENR_KEY, << 0, 30 >> >>, << TCP_ENR_KEY, << 118, 95 >> >>,
      << SECP256K1_ENR_KEY, << 9, 9, 9 >> >> }

\* Arguments of insert_raw_rlp: (key, raw RLP value).
InsertRawArgs ==
    { << UDP_ENR_KEY, RlpU16(30) >>, << UDP_ENR_KEY, << 130, 0, 30 >> >> }

Insert ==
    \E a \in InsertArgs, k \in SigningKeys, ok \in BOOLEAN :
        Call("insert", a, k, insert(enr, a[1], a[2], k, ok))

InsertRawRlp ==
    \E a \in InsertRawArgs, k \in SigningKeys, ok \in BOOLEAN :
        Call("insert_raw_rlp", a, k, insert_raw_rlp(enr, a[1], a[2], k, ok))

\* Enr::set_ip
SetIp ==
    \E addr \in {IPV4, IPV6}, k \in SigningKeys, ok \in BOOLEAN :
        Call("set_ip", addr, k,
             insert(enr, IF Len(addr) = 4 THEN IP_ENR_KEY ELSE IP6_ENR_KEY, addr, k, ok))

\* Enr::set_udp4
SetUdp4 ==
    \E port \in Ports, k \in SigningKeys, ok \in BOOLEAN :
        Call("set_udp4", port, k, insert_raw_rlp(enr, UDP_ENR_KEY, RlpU16(port), k, ok))

\* Enr::set_udp6
SetUdp6 ==
    \E port \in Ports, k \in SigningKeys, ok \in BOOLEAN :
        Call("set_udp6", port, k, insert_raw_rlp(enr, UDP6_ENR_KEY, RlpU16(port), k, ok))

\* Enr::set_tcp4
SetTcp4 ==
    \E port \in Ports, k \in SigningKeys, ok \in BOOLEAN :
        Call("set_tcp4", port, k, insert_raw_rlp(enr, TCP_ENR_KEY, RlpU16(port), k, ok))

\* Enr::set_tcp6
SetTcp6 ==
    \E port \in Ports, k \in SigningKeys, ok \in BOOLEAN :
        Call("set_tcp6", port, k, insert_raw_rlp(enr, TCP6_ENR_KEY, RlpU16(port), k, ok))

\* Enr::set_public_key
SetPublicKey ==
    \E pk \in PublicKeys, k \in SigningKeys, ok \in BOOLEAN :
        Call("set_public_key", pk, k, insert(enr, enr_key(pk), encode(pk), k, ok))

\* Enr::set_udp_socket
SetUdpSocket ==
    \E addr \in {IPV4, IPV6}, port \in Ports, k \in SigningKeys, ok \in BOOLEAN :
        Call("set_udp_socket", << addr, port >>, k, set_socket(enr, addr, port, k, ok, FALSE))

\* Enr::set_tcp_socket
SetTcpSocket ==
    \E addr \in {IPV4, IPV6}, port \in Ports, k \in SigningKeys, ok \in BOOLEAN :
        Call("set_tcp_socket", << addr, port >>, k, set_socket(enr, addr, port, k, ok, TRUE))

RemoveLists == { <<>>, << UDP6_ENR_KEY >>, << ID_ENR_KEY >> }

InsertLists ==
    { << << TCP_ENR_KEY, << 118, 95 >> >> >>, << << TCP_ENR_KEY, << 0, 30 >> >> >>,
      << << ID_ENR_KEY, << 118, 53 >> >> >>, << << SECP256K1_ENR_KEY, << 9, 9, 9 >> >> >> }

RemoveInsert ==
    \E rm \in RemoveLists, ins \in InsertLists, k \in SigningKeys, ok \in BOOLEAN :
        Call("remove_insert", << rm, ins >>, k, remove_insert(enr, rm, ins, k, ok))

SetSeqArgs == {U64(1), U64(255), U64Max}

SetSeq ==
    \E s \in SetSeqArgs, k \in SigningKeys, ok \in BOOLEAN :
        Call("set_seq", s, k, set_seq(enr, s, k, ok))

\* The key/value pairs of a content map in key order, as encode emits them.
RECURSIVE ContentPairs(_, _)
ContentPairs(c, ks) ==
    IF ks = {} THEN <<>>
    ELSE LET m == CHOOSE k \in ks : \A o \in ks \ {k} : LexLess(k, o)
         IN << << m, c[m] >> >> \o ContentPairs(c, ks \ {m})

RECURSIVE FlattenPairs(_)
FlattenPairs(kvs) ==
    IF kvs = <<>> THEN <<>>
    ELSE RlpBytes(Head(kvs)[1]) \o Head(kvs)[2] \o FlattenPairs(Tail(kvs))

\* Bytes on the wire as a peer's encoder may write them: the list of a signature,
\* a seq item and key/value pairs in the order given.
WireBytes(signature, seq_item, kvs) ==
    RlpList(RlpBytes(signature) \o seq_item \o FlattenPairs(kvs))

\* The record e with content c, signed again by the owner of e's public key.
Resigned(e, c) ==
    LET k == IF public_key(e).ok THEN public_key(e).key.id ELSE 1
        e1 == [e EXCEPT !.content = c]
    IN [e1 EXCEPT !.signature = sign_v4(k, rlp_content(e1))]

\* The inputs given to decode, each made from the encoding of a record.
WireKinds ==
    {"valid", "swapped", "duplicate", "value", "key", "seq",
     "no_id", "id_v5", "tcp_001e", "tcp_1e", "appended", "short_len", "seq_00"}

\* The input of kind t made from record e.
WireOf(e, t) ==
    LET kvs == ContentPairs(e.content, DOMAIN e.content)
        n == Len(kvs)
        other_seq == IF e.seq = U64(7) THEN U64(8) ELSE U64(7)
        payload == RlpBytes(e.signature) \o RlpU64(e.seq) \o FlattenPairs(kvs)
        shorter == RlpList(Tail(payload))
    IN CASE t = "valid" -> rlp_encode(e)
         [] t = "swapped" ->
              WireBytes(e.signature, RlpU64(e.seq),
                        IF n < 2 THEN kvs ELSE << kvs[2], kvs[1] >> \o SubSeq(kvs, 3, n))
         [] t = "duplicate" ->
              WireBytes(e.signature, RlpU64(e.seq),
                        IF n < 1 THEN kvs ELSE Append(kvs, kvs[n]))
         [] t = "value" ->
              WireBytes(e.signature, RlpU64(e.seq),
                        IF n < 1 THEN kvs ELSE [kvs EXCEPT ![n] = << kvs[n][1], << 7 >> >>])
         [] t = "key" ->
              WireBytes(e.signature, RlpU64(e.seq),
                        IF n < 1 THEN kvs ELSE [kvs EXCEPT ![n] = << Append(kvs[n][1], 122), kvs[n][2] >>])
         [] t = "seq" -> WireBytes(e.signature, RlpU64(other_seq), kvs)
         [] t = "no_id" -> rlp_encode(Resigned(e, MapRemove(e.content, ID_ENR_KEY)))
         [] t = "id_v5" ->
              rlp_encode(Resigned(e, MapInsert(e.content, ID_ENR_KEY, RlpBytes(<< 118, 53 >>))))
         [] t = "tcp_001e" ->
              rlp_encode(Resigned(e, MapInsert(e.content, TCP_ENR_KEY, << 130, 0, 30 >>)))
         [] t = "tcp_1e" -> rlp_encode(Resigned(e, MapInsert(e.content, TCP_ENR_KEY, RlpU16(30))))
         [] t = "appended" -> Append(rlp_encode(e), 252)
         [] t = "short_len" -> SubSeq(shorter, 1, Len(shorter) - Len(payload) + 1) \o payload
         [] OTHER -> WireBytes(e.signature, RlpBytes(<< 0 >> \o StripZeros(e.seq)), kvs)

\* rlp::decode of bytes received: the program holds the decoded record when
\* decode returns one, and keeps the record it had otherwise.
Decode ==
    \E t \in WireKinds :
        LET d == decode(WireOf(enr, t))
        IN Call("decode", t,
                IF d.err = "Ok" THEN public_key(d.enr).key.id ELSE last.key,
                [enr |-> IF d.err = "Ok" THEN d.enr ELSE enr, res |-> d.err])

Ins(key, value) == [kind |-> "insert", key |-> key, value |-> value]

Rem(key) == [kind |-> "remove", key |-> key, value |-> <<>>]

\* Batches of intents given to Guard::new.
UpdateLists ==
    { << Ins(TCP_ENR_KEY, RlpU16(30303)) >>,
      << Ins(TCP_ENR_KEY, << 130, 0, 30 >>) >>,
      << Rem(UDP6_ENR_KEY), Ins(TCP_ENR_KEY, << 130, 0, 30 >>) >>,
      << Rem(UDP6_ENR_KEY), Ins(UDP6_ENR_KEY, RlpU16(30)) >>,
      << Ins(TCP_ENR_KEY, RlpU16(30303)), Ins(TCP_ENR_KEY, RlpU16(30)) >>,
      << Ins(UDP6_ENR_KEY, RlpU16(30)), Rem(UDP6_ENR_KEY) >>,
      << Rem(UDP6_ENR_KEY), Ins(ID_ENR_KEY, RlpBytes(<< 118, 53 >>)), Ins(TCP_ENR_KEY, RlpU16(30303)) >>,
      << Rem(ID_ENR_KEY) >> }

GuardNew ==
    \E ups \in UpdateLists : \E form \in GuardForms(ups) :
        LET r == guard_new_form(form, enr, ups) IN
        /\ calls < MaxCalls
        /\ ~guard.active
        /\ enr' = r.enr
        /\ pre' = enr
        /\ last' = [op |-> "guard_new", args |-> ups, key |-> last.key, res |-> r.res]
        /\ guard' = [active |-> r.res = "Ok", inverses |-> r.inverses]
        /\ calls' = calls + 1

GuardFinish ==
    \E k \in SigningKeys, ok \in BOOLEAN :
        LET r == guard_finish(enr, k, ok) IN
        /\ guard.active
        /\ enr' = r.enr
        /\ last' = [op |-> "guard_finish", args |-> last.args, key |-> k, res |-> r.res]
        /\ guard' = NoGuard
        /\ UNCHANGED << pre, calls >>

\* The guard is dropped without finish.
GuardDrop ==
    /\ guard.active
    /\ guard' = NoGuard
    /\ last' = [last EXCEPT !.op = "guard_drop"]
    /\ UNCHANGED << enr, pre, calls >>

Next ==
    \/ SetSeq
    \/ Insert
    \/ InsertRawRlp
    \/ SetIp
    \/ SetUdp4
    \/ SetUdp6
    \/ SetTcp4
    \/ SetTcp6
    \/ SetPublicKey
    \/ SetUdpSocket
    \/ SetTcpSocket
    \/ RemoveInsert
    \/ Decode
    \/ GuardNew
    \/ GuardFinish
    \/ GuardDrop

Spec == Init /\ [][Next]_vars

(***************************************************************************)
(* Properties                                                              *)
(***************************************************************************)

\* b is a + 1 as unsigned 64-bit numbers: the bytes agree up to some position,
\* where b is one more, and after it a is all 255 and b all 0.
IsSucc(a, b) ==
    \E i \in 1..8 :
        /\ b[i] = a[i] + 1
        /\ \A j \in 1..(i - 1) : b[j] = a[j]
        /\ \A j \in (i + 1)..8 : a[j] = 255 /\ b[j] = 0

\* The calls that are insert or insert_raw_rlp or a setter built on them.
InsertOps ==
    {"insert", "insert_raw_rlp", "set_ip", "set_udp4", "set_udp6", "set_tcp4", "set_tcp6",
     "set_public_key"}

SocketOps == {"set_udp_socket", "set_tcp_socket"}

\* The content mutations that are single calls on the record.
ContentOps == InsertOps \cup SocketOps \cup {"remove_insert"}

\* The caller can read the record: no guard borrows it.
Readable == ~guard.active

\* C1: every record left by a mutation call, successful or not, encodes to at
\* most MAX_ENR_SIZE (300) bytes.
C1_SizeCeiling == Readable => size(enr) <= MAX_ENR_SIZE

\* C2: when insert, insert_raw_rlp or a setter built on them returns
\* ExceedsMaxSize, seq, signature, content and node_id are those before the call.
C2_InsertExceedsUnchanged ==
    (last.op \in InsertOps /\ last.res = "ExceedsMaxSize") => enr = pre

\* C3: when remove_insert returns an error, seq, node_id, content and signature
\* are those before the call.
C3_RemoveInsertReverts ==
    (last.op = "remove_insert" /\ last.res # "Ok") => enr = pre

\* C3 witness: remove_insert removed a key that was present, applied the public
\* key, and then failed on the size check.
C3_Witness ==
    /\ last.op = "remove_insert"
    /\ last.res = "ExceedsMaxSize"
    /\ last.args[1] = << UDP6_ENR_KEY >>
    /\ UDP6_ENR_KEY \in DOMAIN pre.content
    /\ enr_key(public(last.key)) \notin DOMAIN pre.content

\* C4: when set_udp_socket or set_tcp_socket returns ExceedsMaxSize, the content
\* map is the content before the call.
C4_SocketExceedsContent ==
    (last.op \in SocketOps /\ last.res = "ExceedsMaxSize") => enr.content = pre.content

\* C5: a successful insert, insert_raw_rlp, setter, set_*_socket or guard update
\* increases seq by exactly 1.
C5_SeqPlusOne ==
    (last.op \in InsertOps \cup SocketOps \cup {"guard_finish"} /\ last.res = "Ok")
        => IsSucc(pre.seq, enr.seq)

\* C5 witness: a successful set_udp_socket that wrote both the ip and the port
\* entry, on a record whose seq grows by one byte.
C5_Witness ==
    /\ last.op = "set_udp_socket"
    /\ last.res = "Ok"
    /\ {IP_ENR_KEY, UDP_ENR_KEY} \cap DOMAIN pre.content = {}
    /\ {IP_ENR_KEY, UDP_ENR_KEY} \subseteq DOMAIN enr.content
    /\ pre.seq = U64(127)

\* C6: a successful remove_insert leaves seq at the seq before the call plus 1,
\* and the signature verifies over it.
C6_RemoveInsertSeq ==
    (last.op = "remove_insert" /\ last.res = "Ok")
        => IsSucc(pre.seq, enr.seq)
           /\ enr.signature = sign_v4(last.key, rlp_content(enr))

\* C7: after a successful mutation call signed with key k, verify() is true and
\* the public key stored in content is the public key of k.
C7_VerifiesAfterMutation ==
    (last.op \in ContentOps \cup {"set_seq", "guard_finish"} /\ last.res = "Ok")
        => /\ verify(enr)
           /\ public_key(enr).key = public(last.key)

\* C8: in every state of the record the caller can read, node_id is the identity
\* derivation of the public key stored in content.
C8_NodeIdOfStoredKey ==
    Readable => /\ public_key(enr).ok
                /\ enr.node_id = NodeIdFrom(public_key(enr).key)

\* C9: a content mutation on a record whose seq is u64::MAX that returns
\* SequenceNumberTooHigh leaves content, seq, signature and node_id unchanged.
C9_SeqOverflowUnchanged ==
    (last.op \in ContentOps /\ pre.seq = U64Max /\ last.res = "SequenceNumberTooHigh")
        => enr = pre

\* C10: when signing fails in a content mutation, seq, content and signature
\* are those before the call.
C10_SigningFailureUnchanged ==
    (last.op \in ContentOps /\ last.res = "SigningError")
        => /\ enr.seq = pre.seq
           /\ enr.content = pre.content
           /\ enr.signature = pre.signature

\* The raw RLP value that the last insert or insert_raw_rlp call was given.
RawValueOfLast ==
    IF last.op = "insert" THEN RlpBytes(last.args[2]) ELSE last.args[2]

\* C11: when an intent of the batch given to Guard::new fails validation, or the
\* value given to insert / insert_raw_rlp fails the reserved-key check, the call
\* returns that error and the record is the record before the call: no intent
\* before the invalid one has been applied.
C11_ValidateAllBeforeTouch ==
    /\ (last.op = "guard_new" /\ \E i \in 1..Len(last.args) : to_valid_op(last.args[i]) # "Ok")
           => last.res # "Ok" /\ enr = pre /\ ~guard.active
    /\ (last.op \in {"insert", "insert_raw_rlp"}
           /\ check_spec_reserved_keys(last.args[1], RawValueOfLast) # "Ok")
           => last.res = check_spec_reserved_keys(last.args[1], RawValueOfLast) /\ enr = pre

\* C11 witness: Guard::new refused a batch whose first intent is valid and would
\* have removed an entry that is present, the invalid intent coming after it.
C11_Witness ==
    /\ last.op = "guard_new"
    /\ last.res = "InvalidRlpData"
    /\ Len(last.args) = 2
    /\ last.args[1] = Rem(UDP6_ENR_KEY)
    /\ UDP6_ENR_KEY \in DOMAIN enr.content
    /\ to_valid_op(last.args[2]) # "Ok"

\* C12: when Guard::finish reports ExceedsMaxSize, the record is the record
\* before the update: content (the public-key entry included), seq, signature
\* and node_id hold their prior values.
C12_FinishExceedsRestores ==
    (last.op = "guard_finish" /\ last.res = "ExceedsMaxSize") => enr = pre

\* The record is the committed outcome of the last update: the intents applied to
\* the content before the update, the signer's public key set, seq + 1, signed
\* by the signer, node_id that of the signer.
GuardCommitted ==
    LET pk == public(last.key) IN
    /\ last.op = "guard_finish"
    /\ last.res = "Ok"
    /\ enr.content = MapInsert(ApplyAll(pre.content, last.args, <<>>).content,
                               enr_key(pk), PublicKeyValue(pk))
    /\ IsSucc(pre.seq, enr.seq)
    /\ enr.signature = sign_v4(last.key, rlp_content(enr))
    /\ enr.node_id = NodeIdFrom(pk)

\* C13: whenever the caller can read the record after an update through Guard
\* (the guard or the revert no longer borrows it, dropped or finished), the record
\* is either the committed outcome or exactly the record before the update.
C13_NoIntermediateState ==
    (Readable /\ last.op \in {"guard_new", "guard_finish", "guard_drop"})
        => (GuardCommitted \/ enr = pre)

\* C14: set_seq(s, key) that succeeds leaves seq = s exactly and a signature of
\* key over the record; it returns ExceedsMaxSize when the re-signed record is
\* larger than 300 bytes, with the prior seq and signature, and the signing error
\* with the prior seq; after either failure the record equals (==) the record
\* before the call.
C14_SetSeq ==
    last.op = "set_seq" =>
        /\ last.res = "Ok" =>
              /\ enr.seq = last.args
              /\ enr.signature = sign_v4(last.key, rlp_content(enr))
              /\ size(enr) <= MAX_ENR_SIZE
        /\ last.res = "ExceedsMaxSize" =>
              /\ enr.seq = pre.seq
              /\ enr.signature = pre.signature
              /\ size([pre EXCEPT !.seq = last.args,
                          !.signature = sign_v4(last.key,
                                                rlp_content([pre EXCEPT !.seq = last.args]))])
                    > MAX_ENR_SIZE
        /\ last.res = "SigningError" => enr.seq = pre.seq
        /\ last.res # "Ok" => eq(enr, pre)

\* C14 witness: set_seq(u64::MAX, key) with a key other than the record's signer
\* failed on the size check, on a record whose seq was not u64::MAX.
C14_Witness ==
    /\ last.op = "set_seq"
    /\ last.res = "ExceedsMaxSize"
    /\ last.args = U64Max
    /\ pre.seq = U64(1)
    /\ pre.signature # sign_v4(last.key, rlp_content(pre))

\* The content keys under which a signature scheme stores its public key.
PublicKeyEntries(c) == {SECP256K1_ENR_KEY, ED25519_ENR_KEY} \cap DOMAIN c

\* C15: in every record the caller can read after construction or a successful
\* mutation, content holds exactly one public-key entry, and it is the entry of
\* the scheme of the key that produced the signature.
C15_OnePublicKeyEntry ==
    (Readable /\ last.res = "Ok")
        => PublicKeyEntries(enr.content) = {enr_key(public(last.key))}

\* C16: every record the caller can read has an "id" entry that decodes to "v4";
\* decode returns no record for an input without "id" or with another id, and
\* insert, insert_raw_rlp, remove_insert and Guard::new refuse an "id" that is
\* not "v4".
C16_IdIsV4 ==
    /\ Readable => (ID_ENR_KEY \in DOMAIN enr.content /\ id(enr) = ENR_VERSION)
    /\ (last.op = "decode" /\ last.args \in {"no_id", "id_v5"}) => last.res # "Ok"
    /\ (last.op \in {"insert", "insert_raw_rlp"} /\ last.args[1] = ID_ENR_KEY
           /\ RlpData(RawValueOfLast).data # ENR_VERSION) => last.res # "Ok"
    /\ (last.op = "remove_insert" /\ last.res = "Ok") => id(enr) = ENR_VERSION
    /\ (last.op = "guard_new"
           /\ \E i \in 1..Len(last.args) :
                 /\ last.args[i].kind = "insert"
                 /\ last.args[i].key = ID_ENR_KEY
                 /\ RlpData(last.args[i].value).data # ENR_VERSION) => last.res # "Ok"

\* v is the RLP encoding of a byte string of exactly n bytes (1 < n < 56).
IsRlpOfLength(v, n) == Len(v) = n + 1 /\ v[1] = 128 + n

\* v is the RLP encoding of an unsigned 16-bit integer in minimal form.
IsMinimalU16(v) ==
    \/ Len(v) = 1 /\ v[1] \in 1..128
    \/ Len(v) = 2 /\ v[1] = 129 /\ v[2] >= 128
    \/ Len(v) = 3 /\ v[1] = 130 /\ v[2] # 0

\* The grammar of the reserved address keys that are present in content c.
ReservedGrammar(c) ==
    /\ IP_ENR_KEY \in DOMAIN c => IsRlpOfLength(c[IP_ENR_KEY], 4)
    /\ IP6_ENR_KEY \in DOMAIN c => IsRlpOfLength(c[IP6_ENR_KEY], 16)
    /\ \A k \in {TCP_ENR_KEY, TCP6_ENR_KEY, UDP_ENR_KEY, UDP6_ENR_KEY} \cap DOMAIN c :
          IsMinimalU16(c[k])

\* C17: in every record the caller can read, each of ip, ip6, tcp, tcp6, udp,
\* udp6 that is present satisfies its grammar; decode, insert / insert_raw_rlp
\* and remove_insert refuse a port written as two bytes with a leading zero and
\* accept the minimal form of the same number.
C17_ReservedGrammar ==
    /\ Readable => ReservedGrammar(enr.content)
    /\ (last.op = "decode" /\ last.args = "tcp_001e") => last.res # "Ok"
    /\ (last.op = "decode" /\ last.args = "tcp_1e")
          => last.res \in {"Ok", "enr exceeds max size"}
    /\ (last.op \in {"insert", "insert_raw_rlp"}
           /\ last.args[1] \in {TCP_ENR_KEY, UDP_ENR_KEY}
           /\ ~IsMinimalU16(RawValueOfLast)) => last.res = "InvalidRlpData"
    /\ (last.op = "remove_insert"
           /\ \E i \in 1..Len(last.args[2]) :
                 /\ last.args[2][i][1] = TCP_ENR_KEY
                 /\ ~IsMinimalU16(RlpBytes(last.args[2][i][2]))) => last.res = "InvalidRlpData"

\* C18: for a record obtained from decode or the builder, or left by a successful
\* mutation, decode(encode(R)) succeeds and returns a record with the seq,
\* node_id, signature and content of R.
C18_RoundTrip ==
    (Readable /\ last.res = "Ok" /\ last.op # "guard_drop")
        => decode(rlp_encode(enr)) = [err |-> "Ok", enr |-> enr]

\* C19: a record returned by decode verifies: its signature is a signature, by
\* the owner of the public key in its content, of the parsed seq and content;
\* an encoding whose value, key or seq was changed without signing again is
\* refused.
C19_DecodeVerifies ==
    last.op = "decode" =>
        /\ last.res = "Ok" =>
              /\ verify(enr)
              /\ enr.signature = sign_v4(public_key(enr).key.id, rlp_content(enr))
        /\ last.args \in {"value", "key", "seq"} => (last.res # "Ok" /\ enr = pre)

\* C19 witness: decode parsed an input whose last value was changed, found every
\* structural check satisfied, and refused it for its signature.
C19_Witness ==
    /\ last.op = "decode"
    /\ calls = 1
    /\ last.args = "value"
    /\ last.res = "Invalid Signature"
    /\ verify(pre)

\* The keys of an encoded record, in the order they are written: the items at
\* the odd positions after the signature and seq.
EncodedKeys(raw) ==
    LET items == Items(SubSeq(raw, payload_info(raw).header_len + 1, Len(raw)))
    IN [i \in 1..((Len(items) - 2) \div 2) |-> item_data(items[2 * i + 1])]

StrictlyAscending(ks) == \A i \in 1..(Len(ks) - 1) : LexLess(ks[i], ks[i + 1])

\* C20: decode refuses an input in which a key is less than or equal to the key
\* before it, and the encoding of every record has all its content keys, in
\* strictly ascending lexicographic byte order.
C20_SortInvariant ==
    /\ (last.op = "decode" /\ last.args \in {"swapped", "duplicate"})
          => (last.res # "Ok" /\ enr = pre)
    /\ LET ks == EncodedKeys(rlp_encode(enr))
       IN /\ {ks[i] : i \in 1..Len(ks)} = DOMAIN enr.content
          /\ Len(ks) = Cardinality(DOMAIN enr.content)
          /\ StrictlyAscending(ks)

\* C20 witness: decode refused, as unsorted, an input whose first two keys are in
\* descending order and whose signature is that of the sorted record.
C20_Witness ==
    /\ last.op = "decode"
    /\ calls = 1
    /\ last.args = "swapped"
    /\ last.res = "Unsorted keys"
    /\ verify(pre)
    /\ Cardinality(DOMAIN pre.content) >= 4

\* C21: decode accepts a valid encoding of exactly 300 bytes, and refuses every
\* input longer than 300 bytes with "enr exceeds max size" whatever else is
\* wrong with it; on a record of exactly 300 bytes, setting udp6 to the value it
\* has, signed with the record's own key, with a seq that keeps its length, is
\* not refused for its size and leaves the record at 300 bytes.
C21_SizeBoundInclusive ==
    /\ (last.op = "decode" /\ calls > 0 /\ last.args = "valid"
           /\ size(pre) <= MAX_ENR_SIZE /\ verify(pre) /\ ReservedGrammar(pre.content))
          => last.res = "Ok"
    /\ (last.op = "decode" /\ calls > 0 /\ Len(WireOf(pre, last.args)) > MAX_ENR_SIZE)
          => last.res = "enr exceeds max size"
    /\ (last.op = "set_udp6" /\ size(pre) = MAX_ENR_SIZE /\ verify(pre)
           /\ MapGet(pre.content, UDP6_ENR_KEY) = RlpU16(last.args)
           /\ public_key(pre).key = public(last.key)
           /\ pre.seq \in {U64(1), U64(2)})
          => /\ last.res \in {"Ok", "SigningError"}
             /\ last.res = "Ok" => size(enr) = MAX_ENR_SIZE

\* C21 witness: decode accepted a valid encoding of exactly 300 bytes.
C21_Witness ==
    /\ last.op = "decode"
    /\ calls = 1
    /\ last.args = "valid"
    /\ Len(WireOf(pre, "valid")) = MAX_ENR_SIZE
    /\ last.res = "Ok"
    /\ enr = pre

\* The last call was a successful mutation of an ip or port field.
IpPortMutated ==
    /\ last.res = "Ok"
    /\ \/ last.op \in {"set_ip", "set_udp4", "set_udp6", "set_tcp4", "set_tcp6"} \cup SocketOps
       \/ /\ last.op \in {"insert", "insert_raw_rlp"}
          /\ last.args[1] \in {TCP_ENR_KEY, UDP_ENR_KEY}

\* C22: a successful mutation of ip or port fields of a valid record leaves
\* node_id unchanged when it is signed with the key that signed the record, and
\* makes node_id the identity derivation of the signer's public key, another
\* node id than before, when it is signed with a different key.
C22_NodeIdStability ==
    (IpPortMutated /\ verify(pre)) =>
        /\ public_key(pre).key = public(last.key) => enr.node_id = pre.node_id
        /\ public_key(pre).key # public(last.key) =>
              /\ enr.node_id = NodeIdFrom(public(last.key))
              /\ enr.node_id # pre.node_id

\* C22 witness: set_udp_socket succeeded with another key of the same scheme
\* than the one that signed the record.
C22_Witness ==
    /\ last.op = "set_udp_socket"
    /\ last.res = "Ok"
    /\ verify(pre)
    /\ public_key(pre).key = public(1)
    /\ last.key = 2
    /\ enr.node_id = NodeIdFrom(public(2))

\* C23: to_base64 emits the prefix "enr:"; from_str returns the same result for
\* the text with and without the prefix; and for a record obtained from decode
\* or left by a successful mutation, from_str(to_base64(R)) succeeds and returns
\* R.
C23_TextForm ==
    (Readable /\ last.res = "Ok" /\ last.op # "guard_drop") =>
        LET text == to_base64(enr) IN
        /\ SubSeq(text, 1, 4) = ENR_PREFIX
        /\ from_str(SubSeq(text, 5, Len(text))) = from_str(text)
        /\ from_str(text) = [err |-> "Ok", enr |-> enr]

\* C24: decode refuses an input whose length is not the length of its list
\* header plus the payload length the header declares: a byte appended after the
\* list, and a header that declares a payload shorter than the data that
\* follows; the record held is left as it was.
C24_RejectsLengthMismatch ==
    (last.op = "decode" /\ calls > 0) =>
        LET raw == WireOf(pre, last.args)
            info == payload_info(raw)
        IN /\ (~info.ok \/ Len(raw) # info.header_len + info.value_len) =>
                  (last.res # "Ok" /\ enr = pre)
           /\ (last.args \in {"appended", "short_len"} /\ Len(raw) <= MAX_ENR_SIZE) =>
                  last.res = "RlpInconsistentLengthAndData"

C24_Witness ==
    /\ last.op = "decode" /\ calls = 1 /\ last.args = "appended"
    /\ decode(WireOf(pre, "valid")).err = "Ok"
    /\ Len(WireOf(pre, "appended")) <= MAX_ENR_SIZE
    /\ last.res = "RlpInconsistentLengthAndData"

\* C25: decode refuses a sequence number or a reserved port written with a
\* leading zero byte, and takes the same number written in its shortest form.
C25_CanonicalIntegers ==
    (last.op = "decode" /\ calls > 0 /\ Len(WireOf(pre, last.args)) <= MAX_ENR_SIZE) =>
        /\ last.args = "seq_00" => (last.res = "RlpInvalidIndirection" /\ enr = pre)
        /\ last.args = "tcp_001e" =>
               (last.res = "Invalid data/encoding in reserved key." /\ enr = pre)
        /\ (last.args = "tcp_1e" /\ public_key(pre).ok /\ id(pre) = ENR_VERSION
              /\ ReservedGrammar(pre.content)) =>
               (last.res = "Ok" /\ MapGet(enr.content, TCP_ENR_KEY) = << 30 >>)
        /\ (last.args = "valid" /\ verify(pre) /\ ReservedGrammar(pre.content)) =>
               (last.res = "Ok" /\ enr.seq = pre.seq)

C25_Witness ==
    /\ last.op = "decode" /\ calls = 1 /\ last.args = "seq_00"
    /\ decode(WireOf(pre, "valid")).err = "Ok"
    /\ last.res = "RlpInvalidIndirection"

\* C26: after a successful set_public_key(public_key, key) the public-key entry
\* stored in content is the encoding of the public_key given.
C26_SetPublicKeyStoresArgument ==
    (last.op = "set_public_key" /\ last.res = "Ok") =>
        MapGet(enr.content, enr_key(last.args)) = PublicKeyValue(last.args)

\* The content after the inverses are applied from the last one to the first.
RECURSIVE UndoAll(_, _)
UndoAll(c, inverses) ==
    IF inverses = <<>> THEN c
    ELSE UndoAll(apply_and_invert(inverses[Len(inverses)], c).content,
                 SubSeq(inverses, 1, Len(inverses) - 1))

\* C27: the inverses Guard::new keeps are in the order in which the intents were
\* applied, one per intent, each holding the value its key had just before that
\* intent (or that the key was absent); applied from the last to the first to
\* the content Guard::new leaves, they give the content before the call.
C27_UndoLogOrder ==
    (last.op = "guard_new" /\ last.res = "Ok") =>
        /\ guard.active
        /\ Len(guard.inverses) = Len(last.args)
        /\ \A i \in 1..Len(last.args) :
               LET before == ApplyAll(pre.content, SubSeq(last.args, 1, i - 1), <<>>).content
                   prior == MapGet(before, last.args[i].key)
               IN guard.inverses[i] =
                      IF prior # None THEN Ins(last.args[i].key, prior)
                      ELSE Rem(last.args[i].key)
        /\ UndoAll(enr.content, guard.inverses) = pre.content

C27_Witness ==
    /\ last.op = "guard_new" /\ last.res = "Ok"
    /\ last.args = << Ins(UDP6_ENR_KEY, RlpU16(30)), Rem(UDP6_ENR_KEY) >>
    /\ MapGet(pre.content, UDP6_ENR_KEY) # None
    /\ enr.content # pre.content
    /\ guard.inverses[1].kind = "insert" /\ guard.inverses[2].kind = "insert"
    /\ UndoAll(enr.content, guard.inverses) = pre.content

\* C28: Guard::finish writes the public key, then seq, then the signature, then
\* checks the size, and writes node_id last: when finish fails with
\* SequenceNumberTooHigh, SigningError or ExceedsMaxSize, node_id is the value
\* it had before the update, and the steps before the failing one are the only
\* ones that have written; when finish succeeds node_id is the signer's.
C28_FinishOrder ==
    last.op = "guard_finish" =>
        LET pk == public(last.key)
            key_written == MapGet(enr.content, enr_key(pk)) = PublicKeyValue(pk)
        IN
        /\ last.res \in {"Ok", "SequenceNumberTooHigh", "SigningError", "ExceedsMaxSize"}
        /\ key_written
        /\ last.res # "Ok" => enr.node_id = pre.node_id
        /\ last.res = "Ok" => enr.node_id = NodeIdFrom(pk)
        /\ last.res = "SequenceNumberTooHigh" =>
               (pre.seq = U64Max /\ enr.seq = pre.seq /\ enr.signature = pre.signature)
        /\ last.res = "SigningError" =>
               (enr.seq = checked_add(pre.seq) /\ enr.signature = pre.signature)
        /\ last.res \in {"ExceedsMaxSize", "Ok"} =>
               (enr.seq = checked_add(pre.seq) /\ enr.signature = sign_v4(last.key, rlp_content(enr)))
        /\ last.res = "ExceedsMaxSize" <=>
               (pre.seq # U64Max /\ enr.signature # pre.signature /\ size(enr) > MAX_ENR_SIZE)

C28_Witness ==
    /\ last.op = "guard_finish" /\ last.res = "ExceedsMaxSize"
    /\ NodeIdFrom(public(last.key)) # pre.node_id
    /\ enr.node_id = pre.node_id
    /\ enr.signature = sign_v4(last.key, rlp_content(enr))

\* C29: Guard::finish on a record whose seq is u64::MAX reports
\* SequenceNumberTooHigh; seq and signature are the values from before the
\* update, and the content is the content from before the update.
C29_FinishAtMaxSeq ==
    (last.op = "guard_finish" /\ pre.seq = U64Max) =>
        /\ last.res = "SequenceNumberTooHigh"
        /\ enr.seq = pre.seq
        /\ enr.signature = pre.signature
        /\ enr.content = pre.content

\* C30: when Guard::finish reports SigningError, the content, seq and signature
\* of the record are the ones from before the update.
C30_FinishSigningError ==
    (last.op = "guard_finish" /\ last.res = "SigningError") =>
        /\ enr.content = pre.content
        /\ enr.seq = pre.seq
        /\ enr.signature = pre.signature

\* C31: a mutation after whose intents the content has no "id" entry fails with
\* UnsupportedIdentityScheme and leaves the record as it was, through
\* remove_insert and through Guard::new followed by finish (for a record whose
\* seq can be incremented and intents that pass validation).
C31_NoIdentityUnsupported ==
    /\ (/\ last.op = "remove_insert"
        /\ pre.seq # U64Max
        /\ InsertAll(RemoveAll(pre.content, last.args[1]), last.args[2]).err = "Ok"
        /\ MapGet(InsertAll(RemoveAll(pre.content, last.args[1]), last.args[2]).content,
                  ID_ENR_KEY) = None)
           => (last.res = "UnsupportedIdentityScheme" /\ enr = pre)
    /\ (/\ last.op = "guard_finish"
        /\ pre.seq # U64Max
        /\ MapGet(ApplyAll(pre.content, last.args, <<>>).content, ID_ENR_KEY) = None)
           => (last.res = "UnsupportedIdentityScheme" /\ enr = pre)

\* C32: for the same record, the same intents in the same order and the same
\* signing key, every form of Guard::new that takes the batch (single update,
\* tuple of two or three, Vec) gives the same error, or the same content and
\* the same inverses in the same order; and finish after each of them gives the
\* same result and the same content, seq and node_id.
C32_ArityUniform ==
    /\ last.op = "guard_new" =>
           \A form \in GuardForms(last.args) :
               guard_new_form(form, pre, last.args) =
                   [enr |-> enr, res |-> last.res, inverses |-> guard.inverses]
    /\ last.op = "guard_finish" =>
           \A form \in GuardForms(last.args) :
               /\ guard_new_form(form, pre, last.args).res = "Ok"
               /\ \E ok \in BOOLEAN :
                      guard_finish(guard_new_form(form, pre, last.args).enr, last.key, ok) =
                          [enr |-> enr, res |-> last.res]

C32_Witness ==
    /\ last.op = "guard_finish" /\ last.res = "Ok"
    /\ Len(last.args) = 2
    /\ GuardForms(last.args) = {"tuple", "vec"}
    /\ enr.content # pre.content
    /\ guard_new_tuple(pre, last.args).inverses = guard_new(pre, last.args).inverses

\* C33: after a successful remove_insert signed with key k, the public-key entry
\* stored in content is the encoding of k's public key and verify() is true,
\* also when the lists name the public-key entry's own key.
C33_RemoveInsertKeepsSignerKey ==
    (last.op = "remove_insert" /\ last.res = "Ok") =>
        /\ MapGet(enr.content, enr_key(public(last.key))) = PublicKeyValue(public(last.key))
        /\ public_key(enr).ok
        /\ verify(enr)

\* C34: after a successful set_seq(s, key) on a record with a valid signature,
\* with any signing key, verify() is true and node_id is the identity derivation
\* of the public key stored in content.
C34_SetSeqKeepsValid ==
    (/\ last.op = "set_seq" /\ last.res = "Ok"
     /\ verify(pre) /\ pre.node_id = NodeIdFrom(public_key(pre).key)) =>
        /\ verify(enr)
        /\ enr.node_id = NodeIdFrom(public_key(enr).key)

\* C35: every record the caller can read, after decode or construction and any
\* calls, successful or failed, holds a public-key entry that the key type can
\* parse: the expect of public_key() is never reached.
C35_PublicKeyNeverPanics == Readable => public_key(enr).ok

\* C36: two records the caller can hold, the record before the last call and
\* the record after it, that are equal (same seq, node_id and signature) have
\* the same content map, whether the call succeeded or returned an error.
C36_EqualityImpliesContent ==
    (Readable /\ eq(enr, pre)) => enr.content = pre.content

====
